---- MODULE Spec2Model ----
(***************************************************************************)
(* uniOS build tools.                                                      *)
(*                                                                         *)
(*   Spec      tools/mkunifs.py: create_unifs packs a source tree into a   *)
(*             UNIFS v1 image (header, entry table, data blob).            *)
(*   SpecSync  tools/sync_version.py: main() in update and --check mode.   *)
(*                                                                         *)
(* Strings are sequences of code points, byte strings are sequences of     *)
(* integers in 0..255, and files are byte/character sequences.             *)
(***************************************************************************)
EXTENDS Integers, Sequences, FiniteSets, TLC

(***************************************************************************)
(* Bounds of the explored inputs.                                          *)
(***************************************************************************)
\* largest number of nodes (files plus directories) below the source root
MaxEntries == 4
\* longest file content, in bytes
MaxContentLen == 1

(***************************************************************************)
(* Constants of mkunifs.py.                                                *)
(***************************************************************************)
HeaderSize == 16
EntrySize == 80
NameFieldLen == 64
NameMax == 63

\* b"UNIFS v1"
magic == <<85, 78, 73, 70, 83, 32, 118, 49>>

Slash == <<47>>

(***************************************************************************)
(* Generic helpers.                                                        *)
(***************************************************************************)
\* all orderings of a finite set, as sequences
Perms(S) == {f \in [1..Cardinality(S) -> S] : \A a, b \in 1..Cardinality(S) : f[a] = f[b] => a = b}

(***************************************************************************)
(* str.encode('utf-8') on a sequence of code points.                       *)
(***************************************************************************)
EncodeChar(cp) ==
    IF cp < 128 THEN <<cp>>
    ELSE IF cp < 2048 THEN <<192 + (cp \div 64), 128 + (cp % 64)>>
    ELSE IF cp < 65536 THEN <<224 + (cp \div 4096), 128 + ((cp \div 64) % 64), 128 + (cp % 64)>>
    ELSE <<240 + (cp \div 262144), 128 + ((cp \div 4096) % 64),
           128 + ((cp \div 64) % 64), 128 + (cp % 64)>>

\* the encoding of s[lo..hi], by halving
RECURSIVE Utf8Range(_, _, _)
Utf8Range(s, lo, hi) ==
    IF lo > hi THEN <<>>
    ELSE IF lo = hi THEN EncodeChar(s[lo])
    ELSE LET mid == (lo + hi) \div 2
         IN  Utf8Range(s, lo, mid) \o Utf8Range(s, mid + 1, hi)

Utf8(s) == Utf8Range(s, 1, Len(s))

(***************************************************************************)
(* struct.pack: "Q" is an unsigned 64-bit little-endian integer, "Ns" a    *)
(* byte string cut or zero-padded to N bytes.                              *)
(***************************************************************************)
RECURSIVE ShiftRight8(_, _)
ShiftRight8(n, times) == IF times = 0 THEN n ELSE ShiftRight8(n \div 256, times - 1)

PackQ(n) == [k \in 1..8 |-> ShiftRight8(n, k - 1) % 256]

PackS(n, b) == [k \in 1..n |-> IF k <= Len(b) THEN b[k] ELSE 0]

\* the count packed as a 32-bit integer
PackHeaderShort(m, count) == PackS(8, m) \o SubSeq(PackQ(count), 1, 4)

\* struct.pack("<8sQ", magic, file_count)
PackHeader(m, count) == PackS(8, m) \o PackQ(count)

\* struct.pack("<64sQQ", name_bytes, current_offset, size)
PackEntryRecord(name_bytes, offset, size) ==
    PackS(NameFieldLen, name_bytes) \o PackQ(offset) \o PackQ(size)

\* the name encoded and left to struct.pack to cut
NameBytesUncut(name) == Utf8(name)

\* lines 43-46: encode the name and cut it to 63 bytes
NameBytes(name) ==
    LET b == Utf8(name) IN IF Len(b) > NameMax THEN SubSeq(b, 1, NameMax) ELSE b

(***************************************************************************)
(* The source tree.  A node is the sequence of its path components below   *)
(* the source root.                                                        *)
(***************************************************************************)
source_dir == <<115, 114, 99>>

\* "a"
ShortName == <<97>>
\* "y...y\u00e9z": exactly NameMax bytes in UTF-8, the last three a two-byte
\* character and "z"; one byte more, or a directory prefix, and it is cut
EdgeName == [k \in 1..(NameMax - 3) |-> 121] \o <<233, 122>>

Names == {ShortName, EdgeName}

\* the byte a file is filled with: files of one directory differ in it
FillByte(q) == IF q[Len(q)] = ShortName THEN 17 + Len(q) ELSE 33 + Len(q)

\* the contents a file may have: up to MaxContentLen bytes
ContentsOf(q) == {[k \in 1..n |-> FillByte(q)] : n \in 0..MaxContentLen}

NodePaths == UNION {[1..n -> Names] : n \in 1..MaxEntries}

Parent(p) == SubSeq(p, 1, Len(p) - 1)

GrowTree(T) ==
    LET free == {p \in NodePaths : p \notin (T.d \cup T.f) /\ (Len(p) = 1 \/ Parent(p) \in T.d)}
    IN  {[d |-> T.d \cup {p}, f |-> T.f] : p \in free}
          \cup {[d |-> T.d, f |-> T.f \cup {p}] : p \in free}

RECURSIVE TreesUpTo(_)
TreesUpTo(n) ==
    IF n = 0 THEN {[d |-> {}, f |-> {}]}
    ELSE LET smaller == TreesUpTo(n - 1)
         IN  smaller \cup UNION {GrowTree(T) : T \in smaller}

\* os.path.join(root, name), root not ending in a separator
PathJoin(root, name) == root \o Slash \o name

\* the path string os.walk reports for a node
RECURSIVE PathStr(_)
PathStr(p) == IF p = <<>> THEN source_dir ELSE PathJoin(PathStr(Parent(p)), p[Len(p)])

\* os.path.relpath(path, start) for a path below start
RelPath(path, start) == SubSeq(path, Len(start) + 2, Len(path))

VARIABLES
    pc,             \* position in create_unifs
    dirs_on_disk,   \* directories of the source tree
    file_content,   \* content of every file of the source tree
    output,         \* the file at output_file: [exists, data]
    old_output,     \* the file at output_file when create_unifs was called
    walk_stack,     \* directories os.walk has still to visit
    entries_to_add, \* (name, is_dir, source_path)
    file_count,
    header,
    current_offset,
    entries,
    data_blob,
    idx,            \* position of the loop of line 34
    widx,           \* position of the loop of line 60
    log,            \* names printed with a truncation warning
    version_h,      \* text of include/kernel/version.h
    readme_md,      \* text of README.md
    docs_html,      \* text of docs/index.html
    runs            \* the runs of sync_version.py so far: [mode, rc, said, modified]

mkVars == <<pc, dirs_on_disk, file_content, output, old_output, walk_stack, entries_to_add,
            file_count, header, current_offset, entries, data_blob, idx, widx, log>>

syncVars == <<version_h, readme_md, docs_html, runs>>

vars == <<mkVars, syncVars>>

fsVars == <<dirs_on_disk, file_content, old_output>>

OldOutputs == {[exists |-> FALSE, data |-> <<>>], [exists |-> TRUE, data |-> <<7, 7, 7>>]}

Init ==
    /\ \E T \in TreesUpTo(MaxEntries) :
         /\ dirs_on_disk = T.d
         /\ file_content \in {c \in [T.f -> UNION {ContentsOf(q) : q \in T.f}] :
                                  \A q \in T.f : c[q] \in ContentsOf(q)}
    /\ old_output \in OldOutputs
    /\ output = old_output
    /\ pc = "walk"
    /\ walk_stack = << <<>> >>
    /\ entries_to_add = <<>>
    /\ file_count = 0
    /\ header = <<>>
    /\ current_offset = 0
    /\ entries = <<>>
    /\ data_blob = <<>>
    /\ idx = 1
    /\ widx = 1
    /\ log = <<>>
    /\ version_h = <<>>
    /\ readme_md = <<>>
    /\ docs_html = <<>>
    /\ runs = <<>>

ChildDirs(p) == {q \in dirs_on_disk : Parent(q) = p}
ChildFiles(p) == {q \in DOMAIN file_content : Parent(q) = p}

\* lines 10-13
DirEntry(root, q) ==
    <<RelPath(PathJoin(PathStr(root), q[Len(q)]), source_dir) \o Slash, TRUE, <<>>>>

\* lines 16-19
FileEntry(root, q) ==
    LET filepath == PathJoin(PathStr(root), q[Len(q)])
    IN  <<RelPath(filepath, source_dir), FALSE, filepath>>

\* lines 8-19: one iteration of the os.walk loop; the directory listing comes
\* in an order the file system chooses, and the subdirectories are visited
\* next, depth first, in the listed order
Walk ==
    /\ pc = "walk"
    /\ walk_stack # <<>>
    /\ LET root == Head(walk_stack) IN
         \E dirs \in Perms(ChildDirs(root)), filenames \in Perms(ChildFiles(root)) :
            /\ entries_to_add' = entries_to_add
                                   \o [k \in 1..Len(dirs) |-> DirEntry(root, dirs[k])]
                                   \o [k \in 1..Len(filenames) |-> FileEntry(root, filenames[k])]
            /\ walk_stack' = dirs \o Tail(walk_stack)
    /\ UNCHANGED <<syncVars, pc, fsVars, output, file_count, header, current_offset, entries,
                   data_blob, idx, widx, log>>

\* the directories left out of the count
FileCountFilesOnly(list) == Cardinality({k \in 1..Len(list) : ~list[k][2]})

\* line 23
FileCount(list) == Len(list)

\* the entry table left out of the first offset
DataStartNoTable(count) == HeaderSize

\* line 29
DataStart(count) == HeaderSize + (count * EntrySize)

\* lines 21-32
Plan ==
    /\ pc = "walk"
    /\ walk_stack = <<>>
    /\ file_count' = FileCount(entries_to_add)
    /\ header' = PackHeader(magic, FileCount(entries_to_add))
    /\ current_offset' = DataStart(FileCount(entries_to_add))
    /\ entries' = <<>>
    /\ data_blob' = <<>>
    /\ idx' = 1
    /\ pc' = "pack"
    /\ UNCHANGED <<syncVars, fsVars, output, walk_stack, entries_to_add, widx, log>>

\* the file of the source tree a path string names
FileAt(filepath) == CHOOSE q \in DOMAIN file_content : PathStr(q) = filepath

\* lines 35-38
ReadContent(e) == IF ~e[2] /\ e[3] # <<>> THEN file_content[FileAt(e[3])] ELSE <<>>

\* the offset never advanced
NextOffsetStuck(is_dir, offset, size) == offset

\* lines 51-53
NextOffset(is_dir, offset, size) == IF ~is_dir THEN offset + size ELSE offset

\* lines 34-56: one iteration, the file read without error
PackEntry ==
    /\ pc = "pack"
    /\ idx <= Len(entries_to_add)
    /\ LET e == entries_to_add[idx]
           content == ReadContent(e)
           size == Len(content)
       IN  /\ log' = IF Len(Utf8(e[1])) > NameMax THEN Append(log, e[1]) ELSE log
           /\ entries' = Append(entries, PackEntryRecord(NameBytes(e[1]), current_offset, size))
           /\ data_blob' = IF ~e[2] THEN data_blob \o content ELSE data_blob
           /\ current_offset' = NextOffset(e[2], current_offset, size)
    /\ idx' = idx + 1
    /\ UNCHANGED <<syncVars, pc, fsVars, output, walk_stack, entries_to_add, file_count, header, widx>>

\* lines 37-38: open() or read() raises; the exception ends create_unifs
ReadError ==
    /\ pc = "pack"
    /\ idx <= Len(entries_to_add)
    /\ ~entries_to_add[idx][2]
    /\ pc' = "read_failed"
    /\ UNCHANGED <<syncVars, fsVars, output, walk_stack, entries_to_add, file_count, header,
                   current_offset, entries, data_blob, idx, widx, log>>

\* the output opened before the entries are read
OpenOutputEarly ==
    /\ pc = "pack"
    /\ output' = [exists |-> TRUE, data |-> <<>>]
    /\ pc' = "write_header"
    /\ UNCHANGED <<syncVars, fsVars, walk_stack, entries_to_add, file_count, header,
                   current_offset, entries, data_blob, idx, widx, log>>

\* line 58: open(output_file, "wb") creates or truncates the file
OpenOutput ==
    /\ pc = "pack"
    /\ idx > Len(entries_to_add)
    /\ output' = [exists |-> TRUE, data |-> <<>>]
    /\ pc' = "write_header"
    /\ UNCHANGED <<syncVars, fsVars, walk_stack, entries_to_add, file_count, header, current_offset,
                   entries, data_blob, idx, widx, log>>

\* line 58: open(output_file, "wb") raises
OpenError ==
    /\ pc = "pack"
    /\ idx > Len(entries_to_add)
    /\ pc' = "open_failed"
    /\ UNCHANGED <<syncVars, fsVars, output, walk_stack, entries_to_add, file_count, header,
                   current_offset, entries, data_blob, idx, widx, log>>

\* line 59
WriteHeader ==
    /\ pc = "write_header"
    /\ output' = [output EXCEPT !.data = @ \o header]
    /\ widx' = 1
    /\ pc' = "write_entries"
    /\ UNCHANGED <<syncVars, fsVars, walk_stack, entries_to_add, file_count, header, current_offset,
                   entries, data_blob, idx, log>>

\* the records written last first
WriteEntryReversed ==
    /\ pc = "write_entries"
    /\ widx <= Len(entries)
    /\ output' = [output EXCEPT !.data = @ \o entries[Len(entries) + 1 - widx]]
    /\ widx' = widx + 1
    /\ UNCHANGED <<syncVars, pc, fsVars, walk_stack, entries_to_add, file_count, header,
                   current_offset, entries, data_blob, idx, log>>

\* lines 60-61: one iteration
WriteEntry ==
    /\ pc = "write_entries"
    /\ widx <= Len(entries)
    /\ output' = [output EXCEPT !.data = @ \o entries[widx]]
    /\ widx' = widx + 1
    /\ UNCHANGED <<syncVars, pc, fsVars, walk_stack, entries_to_add, file_count, header,
                   current_offset, entries, data_blob, idx, log>>

\* the blob padded with a zero byte
WriteBlobPadded ==
    /\ pc = "write_entries"
    /\ widx > Len(entries)
    /\ output' = [output EXCEPT !.data = @ \o data_blob \o <<0>>]
    /\ pc' = "done"
    /\ UNCHANGED <<syncVars, fsVars, walk_stack, entries_to_add, file_count, header,
                   current_offset, entries, data_blob, idx, widx, log>>

\* lines 62-64: the blob is written and the file closed
WriteBlob ==
    /\ pc = "write_entries"
    /\ widx > Len(entries)
    /\ output' = [output EXCEPT !.data = @ \o data_blob]
    /\ pc' = "done"
    /\ UNCHANGED <<syncVars, fsVars, walk_stack, entries_to_add, file_count, header, current_offset,
                   entries, data_blob, idx, widx, log>>

Next ==
    \/ Walk
    \/ Plan
    \/ PackEntry
    \/ ReadError
    \/ OpenOutput
    \/ OpenError
    \/ WriteHeader
    \/ WriteEntry
    \/ WriteBlob

Spec == Init /\ [][Next]_vars

(***************************************************************************)
(* sync_version.py.  Texts are sequences of character codes.               *)
(***************************************************************************)
\* most runs of main() in one behaviour
MaxRuns == 2
\* most fragments README.md is put together from
MaxParts == 2

Digits == 48..57
\* the class [\d.]
VersionChars == Digits \cup {46}
\* the class \s
Whitespace == {9, 10, 11, 12, 13, 32}

\* the text #define UNIOS_VERSION_MAJOR
DefineMajor ==
    <<35, 100, 101, 102, 105, 110, 101, 32, 85, 78, 73, 79, 83, 95, 86, 69, 82, 83, 73,
      79, 78, 95, 77, 65, 74, 79, 82>>

\* the text #define UNIOS_VERSION_MINOR
DefineMinor ==
    <<35, 100, 101, 102, 105, 110, 101, 32, 85, 78, 73, 79, 83, 95, 86, 69, 82, 83, 73,
      79, 78, 95, 77, 73, 78, 79, 82>>

\* the text #define UNIOS_VERSION_PATCH
DefinePatch ==
    <<35, 100, 101, 102, 105, 110, 101, 32, 85, 78, 73, 79, 83, 95, 86, 69, 82, 83, 73,
      79, 78, 95, 80, 65, 84, 67, 72>>

\* the text Current Version: **v
ReadmePrefix ==
    <<67, 117, 114, 114, 101, 110, 116, 32, 86, 101, 114, 115, 105, 111, 110, 58, 32, 42,
      42, 118>>

\* the text **
ReadmeSuffix ==
    <<42, 42>>

\* the text "softwareVersion":
JsonKey ==
    <<34, 115, 111, 102, 116, 119, 97, 114, 101, 86, 101, 114, 115, 105, 111, 110, 34,
      58>>

\* the text "softwareVersion": "
JsonReplPrefix ==
    <<34, 115, 111, 102, 116, 119, 97, 114, 101, 86, 101, 114, 115, 105, 111, 110, 34,
      58, 32, 34>>

\* the text "
Quote ==
    <<34>>

\* the text <span class="badge">v
BadgePrefix ==
    <<60, 115, 112, 97, 110, 32, 99, 108, 97, 115, 115, 61, 34, 98, 97, 100, 103, 101,
      34, 62, 118>>

\* the text </span>
BadgeSuffix ==
    <<60, 47, 115, 112, 97, 110, 62>>

\* the text Booting uniOS v
BootPrefix ==
    <<66, 111, 111, 116, 105, 110, 103, 32, 117, 110, 105, 79, 83, 32, 118>>

\* the text ...
BootSuffix ==
    <<46, 46, 46>>

\* the text #define UNIOS_VERSION_MAJOR 1\n#define UNIOS_VERSION_MINOR  2\n#define UNIOS_VERSION_PATCH\t30\n
HeaderGood ==
    <<35, 100, 101, 102, 105, 110, 101, 32, 85, 78, 73, 79, 83, 95, 86, 69, 82, 83, 73,
      79, 78, 95, 77, 65, 74, 79, 82, 32, 49, 10, 35, 100, 101, 102, 105, 110, 101, 32,
      85, 78, 73, 79, 83, 95, 86, 69, 82, 83, 73, 79, 78, 95, 77, 73, 78, 79, 82, 32, 32,
      50, 10, 35, 100, 101, 102, 105, 110, 101, 32, 85, 78, 73, 79, 83, 95, 86, 69, 82,
      83, 73, 79, 78, 95, 80, 65, 84, 67, 72, 9, 51, 48, 10>>

\* the text #define UNIOS_VERSION_MAJOR 0\n#define UNIOS_VERSION_MINOR 9\n#define UNIOS_VERSION_PATCH 1\n
HeaderOther ==
    <<35, 100, 101, 102, 105, 110, 101, 32, 85, 78, 73, 79, 83, 95, 86, 69, 82, 83, 73,
      79, 78, 95, 77, 65, 74, 79, 82, 32, 48, 10, 35, 100, 101, 102, 105, 110, 101, 32,
      85, 78, 73, 79, 83, 95, 86, 69, 82, 83, 73, 79, 78, 95, 77, 73, 78, 79, 82, 32, 57,
      10, 35, 100, 101, 102, 105, 110, 101, 32, 85, 78, 73, 79, 83, 95, 86, 69, 82, 83,
      73, 79, 78, 95, 80, 65, 84, 67, 72, 32, 49, 10>>

\* the text #define UNIOS_VERSION_MAJOR 1\n#define UNIOS_VERSION_MINOR 2\n#define UNIOS_VERSION_PATCH\n
HeaderBroken ==
    <<35, 100, 101, 102, 105, 110, 101, 32, 85, 78, 73, 79, 83, 95, 86, 69, 82, 83, 73,
      79, 78, 95, 77, 65, 74, 79, 82, 32, 49, 10, 35, 100, 101, 102, 105, 110, 101, 32,
      85, 78, 73, 79, 83, 95, 86, 69, 82, 83, 73, 79, 78, 95, 77, 73, 78, 79, 82, 32, 50,
      10, 35, 100, 101, 102, 105, 110, 101, 32, 85, 78, 73, 79, 83, 95, 86, 69, 82, 83,
      73, 79, 78, 95, 80, 65, 84, 67, 72, 10>>

\* the text Current Version: **v1.2.30**\n
ReadmeCurrent ==
    <<67, 117, 114, 114, 101, 110, 116, 32, 86, 101, 114, 115, 105, 111, 110, 58, 32, 42,
      42, 118, 49, 46, 50, 46, 51, 48, 42, 42, 10>>

\* the text Current Version: **v0.9.1**\n
ReadmeOld ==
    <<67, 117, 114, 114, 101, 110, 116, 32, 86, 101, 114, 115, 105, 111, 110, 58, 32, 42,
      42, 118, 48, 46, 57, 46, 49, 42, 42, 10>>

\* the text Current Version: v1.2.30\n
ReadmePlain ==
    <<67, 117, 114, 114, 101, 110, 116, 32, 86, 101, 114, 115, 105, 111, 110, 58, 32,
      118, 49, 46, 50, 46, 51, 48, 10>>

\* the text # uniOS\n
ReadmeTitle ==
    <<35, 32, 117, 110, 105, 79, 83, 10>>

\* the text "softwareVersion": "1.2.30",
JsonCurrent ==
    <<34, 115, 111, 102, 116, 119, 97, 114, 101, 86, 101, 114, 115, 105, 111, 110, 34,
      58, 32, 34, 49, 46, 50, 46, 51, 48, 34, 44>>

\* the text "softwareVersion": "0.9.1",
JsonOld ==
    <<34, 115, 111, 102, 116, 119, 97, 114, 101, 86, 101, 114, 115, 105, 111, 110, 34,
      58, 32, 34, 48, 46, 57, 46, 49, 34, 44>>

\* the text "softwareVersion":"1.2.30",
JsonTight ==
    <<34, 115, 111, 102, 116, 119, 97, 114, 101, 86, 101, 114, 115, 105, 111, 110, 34,
      58, 34, 49, 46, 50, 46, 51, 48, 34, 44>>

\* the text <span class="badge">v1.2.30</span>
BadgeCurrent ==
    <<60, 115, 112, 97, 110, 32, 99, 108, 97, 115, 115, 61, 34, 98, 97, 100, 103, 101,
      34, 62, 118, 49, 46, 50, 46, 51, 48, 60, 47, 115, 112, 97, 110, 62>>

\* the text <span class="badge">v0.9.1</span>
BadgeOld ==
    <<60, 115, 112, 97, 110, 32, 99, 108, 97, 115, 115, 61, 34, 98, 97, 100, 103, 101,
      34, 62, 118, 48, 46, 57, 46, 49, 60, 47, 115, 112, 97, 110, 62>>

\* the text Booting uniOS v1.2.30...
BootCurrent ==
    <<66, 111, 111, 116, 105, 110, 103, 32, 117, 110, 105, 79, 83, 32, 118, 49, 46, 50,
      46, 51, 48, 46, 46, 46>>

\* the text Booting uniOS v0.9.1...
BootOld ==
    <<66, 111, 111, 116, 105, 110, 103, 32, 117, 110, 105, 79, 83, 32, 118, 48, 46, 57,
      46, 49, 46, 46, 46>>

\* the text Booting uniOS v0.9.1....
BootDots ==
    <<66, 111, 111, 116, 105, 110, 103, 32, 117, 110, 105, 79, 83, 32, 118, 48, 46, 57,
      46, 49, 46, 46, 46, 46>>

(***************************************************************************)
(* The regular expressions of sync_version.py all have the shape           *)
(*     pre gap mid class+ suf                                              *)
(* with pre, mid and suf literal, gap nothing, \s* or \s+, and class+ a    *)
(* greedy run that gives characters back until suf matches.                *)
(***************************************************************************)
HasLit(text, i, l) == i + Len(l) - 1 <= Len(text) /\ SubSeq(text, i, i + Len(l) - 1) = l

\* the end of the longest run of class characters starting at i (i - 1: none)
RunEnd(text, i, class) ==
    CHOOSE j \in (i - 1)..Len(text) :
        /\ \A m \in i..j : text[m] \in class
        /\ j = Len(text) \/ text[j + 1] \notin class

NoMatch == [start |-> 0, from |-> 0, to |-> 0, stop |-> 0]

\* the match starting at position i: the capture is text[from..to], the match
\* is text[start..stop]
MatchAt(text, i, P) ==
    IF ~HasLit(text, i, P.pre) THEN NoMatch
    ELSE LET g == i + Len(P.pre)
             gEnd == IF P.gap = "none" THEN g - 1 ELSE RunEnd(text, g, Whitespace)
             m == gEnd + 1
         IN  IF (P.gap = "plus" /\ gEnd < g) \/ ~HasLit(text, m, P.mid) THEN NoMatch
             ELSE LET c == m + Len(P.mid)
                      e == RunEnd(text, c, P.class)
                      ends == {j \in c..e : HasLit(text, j + 1, P.suf)}
                  IN  IF ends = {} THEN NoMatch
                      ELSE LET j == CHOOSE j \in ends : \A k \in ends : k <= j
                           IN  [start |-> i, from |-> c, to |-> j, stop |-> j + Len(P.suf)]

MatchStarts(text, P, i) == {k \in i..Len(text) : MatchAt(text, k, P) # NoMatch}

\* re.search(P, text): the leftmost match
Search(text, P) ==
    LET ms == MatchStarts(text, P, 1)
    IN  IF ms = {} THEN NoMatch
        ELSE MatchAt(text, CHOOSE k \in ms : \A m \in ms : k <= m, P)

\* re.sub(P, repl, text) from position i on: every match, left to right,
\* none overlapping
RECURSIVE SubFrom(_, _, _, _)
SubFrom(text, P, repl, i) ==
    LET ms == MatchStarts(text, P, i)
    IN  IF ms = {} THEN SubSeq(text, i, Len(text))
        ELSE LET k == CHOOSE k \in ms : \A m \in ms : k <= m
             IN  SubSeq(text, i, k - 1) \o repl \o SubFrom(text, P, repl, MatchAt(text, k, P).stop + 1)

Sub(P, repl, text) == SubFrom(text, P, repl, 1)

\* l in text
Contains(text, l) == \E i \in 1..(Len(text) + 1) : HasLit(text, i, l)

\* lines 25-27
MajorPattern == [pre |-> DefineMajor, gap |-> "plus", mid |-> <<>>, class |-> Digits, suf |-> <<>>]
MinorPattern == [pre |-> DefineMinor, gap |-> "plus", mid |-> <<>>, class |-> Digits, suf |-> <<>>]
PatchPattern == [pre |-> DefinePatch, gap |-> "plus", mid |-> <<>>, class |-> Digits, suf |-> <<>>]
\* line 39
ReadmePattern ==
    [pre |-> ReadmePrefix, gap |-> "none", mid |-> <<>>, class |-> VersionChars, suf |-> ReadmeSuffix]
\* line 54
JsonPattern ==
    [pre |-> JsonKey, gap |-> "star", mid |-> Quote, class |-> VersionChars, suf |-> Quote]
\* line 61
BadgePattern ==
    [pre |-> BadgePrefix, gap |-> "none", mid |-> <<>>, class |-> VersionChars, suf |-> BadgeSuffix]
\* line 68
BootPattern ==
    [pre |-> BootPrefix, gap |-> "none", mid |-> <<>>, class |-> VersionChars, suf |-> BootSuffix]

Capture(text, m) == SubSeq(text, m.from, m.to)

\* lines 21-32: the version string, or <<>> where the code raises RuntimeError
get_version_from_header(content) ==
    LET major == Search(content, MajorPattern)
        minor == Search(content, MinorPattern)
        patch == Search(content, PatchPattern)
    IN  IF major = NoMatch \/ minor = NoMatch \/ patch = NoMatch THEN <<>>
        ELSE Capture(content, major) \o <<46>> \o Capture(content, minor)
               \o <<46>> \o Capture(content, patch)

\* lines 36-42: the new text of README.md
update_readme(version, content) ==
    Sub(ReadmePattern, ReadmePrefix \o version \o ReadmeSuffix, content)

\* lines 50-71: the new text of docs/index.html
update_docs_html(version, content) ==
    LET json == Sub(JsonPattern, JsonReplPrefix \o version \o Quote, content)
        badge == Sub(BadgePattern, BadgePrefix \o version \o BadgeSuffix, json)
    IN  Sub(BootPattern, BootPrefix \o version \o BootSuffix, badge)

\* lines 78-106: the errors found, by the place they are about
check_versions(version, readme, html) ==
    {e \in {"readme", "json", "badge", "typewriter"} :
        \/ e = "readme" /\ ~Contains(readme, ReadmePrefix \o version \o ReadmeSuffix)
        \/ e = "json" /\ ~Contains(html, JsonReplPrefix \o version \o Quote)
        \/ e = "badge" /\ ~Contains(html, BadgePrefix \o version \o BadgeSuffix)
        \/ e = "typewriter" /\ ~Contains(html, BootPrefix \o version \o BootSuffix)}

RECURSIVE Concat(_)
Concat(parts) == IF parts = <<>> THEN <<>> ELSE Head(parts) \o Concat(Tail(parts))

ReadmeParts == {ReadmeCurrent, ReadmeOld, ReadmePlain, ReadmeTitle}

ReadmeTexts == {Concat(ps) : ps \in UNION {[1..n -> ReadmeParts] : n \in 0..MaxParts}}

HtmlTexts ==
    {j \o b \o t : j \in {<<>>, JsonCurrent, JsonOld, JsonTight},
                   b \in {<<>>, BadgeCurrent, BadgeOld},
                   t \in {<<>>, BootCurrent, BootOld, BootDots}}

HeaderTexts == {HeaderGood, HeaderOther, HeaderBroken}

InitSync ==
    /\ version_h \in HeaderTexts
    /\ readme_md \in ReadmeTexts
    /\ docs_html \in HtmlTexts
    /\ runs = <<>>
    /\ pc = "idle"
    /\ dirs_on_disk = {}
    /\ file_content = <<>>
    /\ old_output = [exists |-> FALSE, data |-> <<>>]
    /\ output = old_output
    /\ walk_stack = <<>>
    /\ entries_to_add = <<>>
    /\ file_count = 0
    /\ header = <<>>
    /\ current_offset = 0
    /\ entries = <<>>
    /\ data_blob = <<>>
    /\ idx = 1
    /\ widx = 1
    /\ log = <<>>

\* lines 108-115: main() where the header cannot be parsed, in either mode
RunNoVersion ==
    /\ Len(runs) < MaxRuns
    /\ get_version_from_header(version_h) = <<>>
    /\ \E mode \in {"update", "check"} :
         runs' = Append(runs, [mode |-> mode, rc |-> 1, said |-> "error", modified |-> FALSE])
    /\ UNCHANGED <<mkVars, version_h, readme_md, docs_html>>

\* lines 108-127: main() with --check
RunCheck ==
    /\ Len(runs) < MaxRuns
    /\ get_version_from_header(version_h) # <<>>
    /\ LET errors == check_versions(get_version_from_header(version_h), readme_md, docs_html)
       IN  runs' = Append(runs, IF errors # {}
                                THEN [mode |-> "check", rc |-> 1, said |-> "mismatch",
                                      modified |-> FALSE]
                                ELSE [mode |-> "check", rc |-> 0, said |-> "match",
                                      modified |-> FALSE])
    /\ UNCHANGED <<mkVars, version_h, readme_md, docs_html>>

\* lines 108-117 and 129-144: main() without --check
RunUpdate ==
    /\ Len(runs) < MaxRuns
    /\ get_version_from_header(version_h) # <<>>
    /\ LET version == get_version_from_header(version_h) IN
         /\ readme_md' = update_readme(version, readme_md)
         /\ docs_html' = update_docs_html(version, docs_html)
    /\ runs' = Append(runs, [mode |-> "update", rc |-> 0, said |-> "synchronized",
                             modified |-> (readme_md' # readme_md \/ docs_html' # docs_html)])
    /\ UNCHANGED <<mkVars, version_h>>

NextSync ==
    \/ RunNoVersion
    \/ RunCheck
    \/ RunUpdate

SpecSync == InitSync /\ [][NextSync]_vars

(***************************************************************************)
(* Reading an image back.  Offsets are counted from 0, as in the format.   *)
(***************************************************************************)
RECURSIVE UnpackQ(_)
UnpackQ(b) == IF b = <<>> THEN 0 ELSE Head(b) + 256 * UnpackQ(Tail(b))

Slice(img, off, n) == SubSeq(img, off + 1, off + n)

Image == output.data

EntryCount == Len(entries_to_add)

HeaderCount(img) == UnpackQ(Slice(img, 8, 8))

RecordOf(img, k) == Slice(img, HeaderSize + EntrySize * (k - 1), EntrySize)

RecName(r) == SubSeq(r, 1, NameFieldLen)
RecOffset(r) == UnpackQ(SubSeq(r, NameFieldLen + 1, NameFieldLen + 8))
RecSize(r) == UnpackQ(SubSeq(r, NameFieldLen + 9, NameFieldLen + 16))

\* the position of the first zero byte of field[lo..hi], 0 when there is none
RECURSIVE FirstZero(_, _, _)
FirstZero(field, lo, hi) ==
    IF lo > hi THEN 0
    ELSE IF lo = hi THEN (IF field[lo] = 0 THEN lo ELSE 0)
    ELSE LET mid == (lo + hi) \div 2
             left == FirstZero(field, lo, mid)
         IN  IF left # 0 THEN left ELSE FirstZero(field, mid + 1, hi)

\* the bytes of a name field before its first zero byte
DecodeName(field) ==
    LET z == FirstZero(field, 1, Len(field))
    IN  IF z = 0 THEN field ELSE SubSeq(field, 1, z - 1)

IsDirEntry(k) == entries_to_add[k][2]
FileEntries == {k \in 1..EntryCount : ~IsDirEntry(k)}
DirEntries == {k \in 1..EntryCount : IsDirEntry(k)}

\* the content on disk of the file entry k was collected from
SourceContent(k) == file_content[FileAt(entries_to_add[k][3])]

\* the path of a node relative to the source root, components joined by "/"
RECURSIVE RelName(_)
RelName(q) == IF Len(q) = 1 THEN q[1] ELSE RelName(Parent(q)) \o Slash \o q[Len(q)]

FirstBytes(b, n) == IF Len(b) > n THEN SubSeq(b, 1, n) ELSE b

\* the sizes of the file entries before entry k, summed
RECURSIVE SizesBefore(_)
SizesBefore(k) ==
    IF k <= 1 THEN 0
    ELSE SizesBefore(k - 1) + (IF IsDirEntry(k - 1) THEN 0 ELSE Len(SourceContent(k - 1)))

\* the contents of the file entries among the first k entries, concatenated
RECURSIVE ContentsUpTo(_)
ContentsUpTo(k) ==
    IF k = 0 THEN <<>>
    ELSE ContentsUpTo(k - 1) \o (IF IsDirEntry(k) THEN <<>> ELSE SourceContent(k))

\* the byte positions [offset, offset+size) of entry k
Range(k) ==
    LET r == RecordOf(Image, k)
        off == RecOffset(r)
    IN  off..(off + RecSize(r) - 1)

IsLongName(k) == Len(Utf8(entries_to_add[k][1])) > NameMax

(***************************************************************************)
(* C1: every directory entry of a written image has offset 0 and size 0    *)
(* in its record, whatever was emitted before it.                          *)
(***************************************************************************)
C1_DirectoryRecordsZero ==
    pc = "done" =>
        \A k \in DirEntries :
            /\ RecOffset(RecordOf(Image, k)) = 0
            /\ RecSize(RecordOf(Image, k)) = 0

(***************************************************************************)
(* C2: the output file is first touched only after every file entry has    *)
(* been read; a failed read leaves the file at the output path as it was.  *)
(***************************************************************************)
C2_NoOutputBeforeAllRead ==
    /\ pc = "read_failed" => output = old_output
    /\ output # old_output =>
          /\ idx > EntryCount
          /\ Len(entries) = EntryCount
          /\ data_blob = ContentsUpTo(EntryCount)

C2_Witness ==
    /\ pc = "read_failed"
    /\ idx > 1
    /\ old_output.exists
    /\ output = old_output

(***************************************************************************)
(* C3: round trip.  For every file entry of a written image the record's   *)
(* size is the length of the source file, the image bytes at               *)
(* [offset, offset+size) are its content, and the name field decodes to    *)
(* the first 63 UTF-8 bytes of the file's path relative to the root.       *)
(***************************************************************************)
C3_RoundTrip ==
    pc = "done" =>
        \A k \in FileEntries :
            LET r == RecordOf(Image, k) IN
            /\ RecSize(r) = Len(SourceContent(k))
            /\ RecOffset(r) + RecSize(r) <= Len(Image)
            /\ Slice(Image, RecOffset(r), RecSize(r)) = SourceContent(k)
            /\ DecodeName(RecName(r))
                 = FirstBytes(Utf8(RelName(FileAt(entries_to_add[k][3]))), NameMax)

C3_Witness ==
    /\ pc = "done"
    /\ \E j, k \in FileEntries :
         /\ j < k
         /\ SourceContent(j) # <<>>
         /\ SourceContent(k) # <<>>
         /\ SourceContent(j) # SourceContent(k)
         /\ IsLongName(k)

(***************************************************************************)
(* C4: offset contiguity.  The first file entry starts at 16 + 80*N, and   *)
(* each file entry starts where the file entry before it ends, directory   *)
(* entries between them skipped.                                           *)
(***************************************************************************)
C4_OffsetContiguity ==
    pc = "done" =>
        \A k \in FileEntries :
            LET before == {j \in FileEntries : j < k} IN
            IF before = {}
            THEN RecOffset(RecordOf(Image, k)) = 16 + 80 * EntryCount
            ELSE LET j == CHOOSE j \in before : \A m \in before : m <= j
                 IN  RecOffset(RecordOf(Image, j)) + RecSize(RecordOf(Image, j))
                       = RecOffset(RecordOf(Image, k))

C4_Witness ==
    /\ pc = "done"
    /\ \E i, j, k \in 1..EntryCount :
         /\ i < j /\ j < k
         /\ ~IsDirEntry(i) /\ IsDirEntry(j) /\ ~IsDirEntry(k)
         /\ SourceContent(i) # <<>>

(***************************************************************************)
(* C5: no gaps, no overlaps.  File offsets do not decrease in emission     *)
(* order, the byte ranges of distinct file entries are disjoint and        *)
(* together are the data region, the last file entry ends at the end of    *)
(* the image, and the image is 16 + 80*N + the sum of the file sizes long. *)
(***************************************************************************)
C5_NoGapsNoOverlaps ==
    pc = "done" =>
        /\ \A j, k \in FileEntries :
             j < k => RecOffset(RecordOf(Image, j)) <= RecOffset(RecordOf(Image, k))
        /\ \A j, k \in FileEntries : j # k => Range(j) \cap Range(k) = {}
        /\ UNION {Range(k) : k \in FileEntries}
             = (16 + 80 * EntryCount)..(Len(Image) - 1)
        /\ \A k \in FileEntries :
             (\A j \in FileEntries : j <= k) =>
                 RecOffset(RecordOf(Image, k)) + RecSize(RecordOf(Image, k)) = Len(Image)
        /\ Len(Image) = 16 + 80 * EntryCount + SizesBefore(EntryCount + 1)

C5_Witness ==
    /\ pc = "done"
    /\ Cardinality({k \in FileEntries : SourceContent(k) # <<>>}) >= 2
    /\ \E k \in FileEntries : SourceContent(k) = <<>>
    /\ DirEntries # {}

(***************************************************************************)
(* C6: count invariant.  The count in the header of a written image is the *)
(* number of 80-byte records written to the table and the number of        *)
(* entries the walk collected.                                             *)
(***************************************************************************)
C6_CountInvariant ==
    pc = "done" =>
        /\ HeaderCount(Image) = widx - 1
        /\ HeaderCount(Image) = EntryCount
        /\ \A k \in 1..(widx - 1) : Len(entries[k]) = 80
        /\ Len(Image) = 16 + 80 * HeaderCount(Image) + Len(data_blob)
        /\ EntryCount = Cardinality(dirs_on_disk) + Cardinality(DOMAIN file_content)

C6_Witness ==
    /\ pc = "done"
    /\ DirEntries # {}
    /\ Cardinality(FileEntries) >= 2

(***************************************************************************)
(* C7: truncation is not fatal and local.  A name longer than 63 bytes is  *)
(* stored as its first 63 bytes and a zero byte and is reported in the     *)
(* log, the build stops only where a read or the opening of the output     *)
(* fails, and in the written image every entry has the offset and size     *)
(* that the sizes of the files alone give it.                              *)
(***************************************************************************)
C7_TruncationLocal ==
    /\ pc = "read_failed" => ~IsDirEntry(idx)
    /\ pc = "open_failed" => idx > EntryCount
    /\ pc = "done" =>
        \A k \in 1..EntryCount :
            LET r == RecordOf(Image, k) IN
            /\ IsLongName(k) =>
                 /\ RecName(r) = SubSeq(Utf8(entries_to_add[k][1]), 1, 63) \o <<0>>
                 /\ \E m \in 1..Len(log) : log[m] = entries_to_add[k][1]
            /\ RecOffset(r) = 16 + 80 * EntryCount + SizesBefore(k)
            /\ RecSize(r) = (IF IsDirEntry(k) THEN 0 ELSE Len(SourceContent(k)))

C7_Witness ==
    /\ pc = "done"
    /\ \E j, k \in FileEntries :
         /\ j < k
         /\ IsLongName(j)
         /\ SourceContent(j) # <<>>
         /\ ~IsLongName(k)

(***************************************************************************)
(* C8: emission order is stable.  The records are written in the order the *)
(* walk collected the entries, the blob holds the contents of the file     *)
(* entries in that order, and the file is written as header, then the      *)
(* records, then the blob, with nothing between or after them.             *)
(***************************************************************************)
RecordMatches(r, k) ==
    /\ DecodeName(RecName(r)) = FirstBytes(Utf8(entries_to_add[k][1]), NameMax)
    /\ RecSize(r) = (IF IsDirEntry(k) THEN 0 ELSE Len(SourceContent(k)))

C8_StableOrder ==
    /\ pc = "write_header" => Image = <<>>
    /\ pc = "write_entries" =>
          /\ Len(Image) = 16 + 80 * (widx - 1)
          /\ Slice(Image, 0, 16) = magic \o PackQ(EntryCount)
          /\ \A k \in 1..(widx - 1) : RecordMatches(RecordOf(Image, k), k)
    /\ pc = "done" =>
          /\ Slice(Image, 0, 16) = magic \o PackQ(EntryCount)
          /\ \A k \in 1..EntryCount : RecordMatches(RecordOf(Image, k), k)
          /\ Len(Image) = 16 + 80 * EntryCount + Len(ContentsUpTo(EntryCount))
          /\ Slice(Image, 16 + 80 * EntryCount, Len(ContentsUpTo(EntryCount)))
               = ContentsUpTo(EntryCount)

C8_Witness ==
    /\ pc = "done"
    /\ \E i, j, k \in 1..EntryCount :
         /\ i < j /\ j < k
         /\ IsDirEntry(i) /\ ~IsDirEntry(j) /\ ~IsDirEntry(k)
         /\ SourceContent(j) # <<>>
         /\ SourceContent(k) # <<>>
         /\ SourceContent(j) # SourceContent(k)
         /\ Len(entries_to_add[j][1]) # Len(entries_to_add[k][1])

(***************************************************************************)
(* C9: an empty source directory gives an image of exactly 16 bytes, the   *)
(* magic "UNIFS v1" and a count of 0.                                      *)
(***************************************************************************)
C9_EmptyTree ==
    (pc = "done" /\ dirs_on_disk = {} /\ DOMAIN file_content = {}) =>
        /\ Len(Image) = 16
        /\ Image = <<85, 78, 73, 70, 83, 32, 118, 49, 0, 0, 0, 0, 0, 0, 0, 0>>

C9_Witness ==
    /\ pc = "done"
    /\ dirs_on_disk = {}
    /\ DOMAIN file_content = {}
    /\ old_output.exists

(***************************************************************************)
(* C10: sync_version synchronizes.  A --check run right after an update    *)
(* run that returned 0 returns 0, whatever README.md and docs/index.html   *)
(* held before; a --check run modifies neither file; and a --check run     *)
(* returns 1 exactly when some version occurrence in the two files differs *)
(* from the version of version.h.                                          *)
(***************************************************************************)
\* the version strings matched by a pattern anywhere in a text
Occurrences(text, P) ==
    {Capture(text, MatchAt(text, k, P)) : k \in MatchStarts(text, P, 1)}

AllOccurrences ==
    Occurrences(readme_md, ReadmePattern) \cup Occurrences(docs_html, JsonPattern)
        \cup Occurrences(docs_html, BadgePattern) \cup Occurrences(docs_html, BootPattern)

C10_UpdateThenCheckPasses ==
    /\ \A n \in 1..(Len(runs) - 1) :
         (runs[n].mode = "update" /\ runs[n].rc = 0 /\ runs[n + 1].mode = "check")
            => runs[n + 1].rc = 0
    /\ \A n \in 1..Len(runs) : runs[n].mode = "check" => ~runs[n].modified
    /\ (runs # <<>> /\ runs[Len(runs)].mode = "check" /\ runs[Len(runs)].said # "error") =>
         (runs[Len(runs)].rc = 1
            <=> \E v \in AllOccurrences : v # get_version_from_header(version_h))

====
